---------------------------- MODULE Spec2Model ----------------------------
(***************************************************************************)
(* A model of src/import_ontology.py: the OBO stanza parser                *)
(* (import_ontology), the is_a accumulator (record_is_a), the closure      *)
(* engine (save_is_a), the GAF mapping loader                              *)
(* (import_gene_ontology_mappings) and the driver (main), over an sqlite3  *)
(* connection with Python's default (implicit) transaction control.        *)
(***************************************************************************)
EXTENDS Integers, Sequences, FiniteSets, TLC

(***************************************************************************)
(* Bounds of the model and the input alphabets.                            *)
(***************************************************************************)
\* Term ids that occur in the input, in Python's string order.
IdOrder == <<"A", "B", "C", "D">>

Ids == {IdOrder[k] : k \in 1..Len(IdOrder)}

\* Ids that occur in the lines fed to a whole run of main (kept small: a
\* run reads three files and six annotation files before the closure), and
\* in the accumulators, cyclic or not, of SpecAnyGraph.
MainIds == {"A", "B", "C"}

\* Lines read by one run of main, over its three ontology files.
MaxLinesMain == 11

\* Lines read in the parser-only specification.
MaxLinesParser == 7

\* Annotation rows read by one run of main, over its six files.
MaxRowsMain == 1

\* Annotation rows read in the mapping-loader specification, over its six
\* files.
MaxRowsMapping == 4

\* is_a edges accumulated before the closure-only specification starts.
MaxEdges == 4

\* The longest list save_is_a walks in the model; only a cyclic graph, whose
\* list grows for ever, reaches it.
MaxFrontier == 8

(***************************************************************************)
(* Python values.                                                          *)
(***************************************************************************)
\* A dict with no key.
EmptyDict == [k \in {} |-> {}]

\* None, and a column that was never set (SQL NULL), for text values.
None == "None"

\* An INTEGER column is <<>> when NULL and <<n>> when it holds n.
NullCount == << >>

\* d with d[k] = v (the key is added when it is new).
Put(d, k, v) == [x \in (DOMAIN d) \cup {k} |-> IF x = k THEN v ELSE d[x]]

\* dict.get(k, default)
Get(d, k, default) == IF k \in DOMAIN d THEN d[k] ELSE default

\* The position of an id in Python's ordering of strings.
Rank(x) == CHOOSE k \in 1..Len(IdOrder) : IdOrder[k] = x

\* sorted(S) for a set of ids.
RECURSIVE Sorted(_)
Sorted(S) ==
    IF S = {} THEN << >>
    ELSE LET m == CHOOSE x \in S : \A y \in S : Rank(x) <= Rank(y)
         IN <<m>> \o Sorted(S \ {m})

\* Every order in which the elements of a set can be iterated (a Python set
\* of strings iterates in hash order, which differs from process to process).
RECURSIVE Orders(_)
Orders(S) ==
    IF S = {} THEN { << >> }
    ELSE UNION { { <<x>> \o t : t \in Orders(S \ {x}) } : x \in S }

\* str.lower() on the values the is_obsolete tag takes in the input.
Lower(s) == IF s = "True" THEN "true" ELSE s

VARIABLES
    pc,                 \* where main is
    file,               \* which call of the current phase is running (1-based)
    exc,                \* the exception that ended the run, or "none"
    nlines,             \* ontology lines read so far by this run
    nrows,              \* annotation lines read so far by this run
    map_records,        \* history: the map_record tuples the store took, in order
    new_term,           \* import_ontology: the term buffer (a dict)
    in_term,            \* import_ontology: inside a [Term] stanza
    line,               \* the line the running loop is processing (NoLine outside a loop)
    stanza_is_a,        \* history: the accumulator when the current stanza began
    is_a,               \* the module-level accumulator: [keys, val]
    conn,               \* the sqlite3 connection: "open" or "closed"
    on_terms,           \* table on_terms as the connection sees it: id -> row
    on_pairs,           \* table on_pairs as the connection sees it: rows in insertion order
    gene_ontology_map,  \* table gene_ontology_map: rows <<gene_id, ontology_id, taxonid>>
    committed,          \* what is durably in the database file
    inv,                \* save_is_a: the inverted dict [keys, val]
    g,                  \* save_is_a: position of `generalized` in the current loop
    l,                  \* save_is_a: the list being walked
    i                   \* save_is_a: position of `id` in l (0: no list yet); child position when persisting

vars == <<pc, file, exc, nlines, nrows, map_records, new_term, in_term, line, stanza_is_a, is_a, conn,
          on_terms, on_pairs, gene_ontology_map, committed, inv, g, l, i>>

parserVars == <<new_term, in_term, line, stanza_is_a>>
dbVars == <<conn, on_terms, on_pairs, gene_ontology_map, committed>>
closureVars == <<inv, g, l, i>>

(***************************************************************************)
(* The is_a accumulator (a dict of sets; dicts keep insertion order).      *)
(***************************************************************************)
EmptyOrdered == [keys |-> << >>, val |-> EmptyDict]

\* record_is_a(term, isa_term), as a function of the accumulator.
record_is_a(d, term, isa_term) ==
    LET d1 == IF term \notin DOMAIN d.val
              THEN [keys |-> Append(d.keys, term), val |-> Put(d.val, term, {})]
              ELSE d
    IN [d1 EXCEPT !.val = Put(d1.val, term, d1.val[term] \cup {isa_term})]

\* The direct edges <<child, parent>> of an accumulator.
Edges(d) == { e \in Ids \X Ids : e[1] \in DOMAIN d.val /\ e[2] \in d.val[e[1]] }

(***************************************************************************)
(* The database connection.                                                *)
(***************************************************************************)
EmptyTables == [on_terms |-> EmptyDict, on_pairs |-> << >>, gene_ontology_map |-> {}]

\* The tables as the connection sees them.
Work == [on_terms |-> on_terms, on_pairs |-> on_pairs, gene_ontology_map |-> gene_ontology_map]

\* A connection in autocommit mode: every statement is durable at once.
DurableAfterStatementAutocommit(durable, work) == work

\* What is durable after an INSERT or UPDATE on the connection main opens
\* (sqlite3.connect with the default isolation level): the statement runs in
\* an implicitly opened transaction, so nothing changes until commit().
DurableAfterStatement(durable, work) == durable

\* The run ends with an uncaught exception (or sys.exit): nothing more is
\* executed, and the open transaction is never committed.
Abort(e) ==
    /\ pc' = "aborted"
    /\ exc' = e
    /\ UNCHANGED <<file, nlines, nrows, map_records, parserVars, is_a, dbVars, closureVars>>

(***************************************************************************)
(* main                                                                    *)
(***************************************************************************)
\* The import_ontology calls of main (GO, MP, DO).
NumOntologies == 3

Line(kind, arg) == [kind |-> kind, arg |-> arg]

\* `line` before the loop of import_ontology has assigned it.
NoLine == Line("", "")

Init ==
    /\ pc = "create_tables"
    /\ file = 0
    /\ exc = "none"
    /\ nlines = 0
    /\ nrows = 0
    /\ map_records = << >>
    /\ new_term = EmptyDict
    /\ in_term = FALSE
    /\ line = NoLine
    /\ stanza_is_a = EmptyOrdered
    /\ is_a = EmptyOrdered
    /\ conn = "open"
    /\ on_terms = EmptyDict
    /\ on_pairs = << >>
    /\ gene_ontology_map = {}
    /\ committed = EmptyTables
    /\ inv = EmptyOrdered
    /\ g = 0
    /\ l = << >>
    /\ i = 0

\* create_tables: DDL only, run outside any transaction, so it is durable
\* at once; then main calls import_ontology on the first file.
create_tables ==
    /\ pc = "create_tables"
    /\ on_terms' = EmptyDict
    /\ on_pairs' = << >>
    /\ gene_ontology_map' = {}
    /\ committed' = EmptyTables
    /\ pc' = "import_ontology"
    /\ file' = 1
    /\ new_term' = EmptyDict
    /\ in_term' = FALSE
    /\ line' = NoLine
    /\ stanza_is_a' = is_a
    /\ UNCHANGED <<exc, nlines, nrows, map_records, is_a, conn, inv, g, l, i>>

(***************************************************************************)
(* import_ontology                                                         *)
(***************************************************************************)
\* The lines of an ontology file, over the ids S.
Lines(S) ==
    { Line("[Term]", ""), Line("[Typedef]", ""), Line("name", "n"),
      Line("namespace", "ns"), Line("def", "d"), Line("other", ""),
      Line("is_obsolete", "true"), Line("is_obsolete", "True"),
      Line("is_obsolete", "false") }
    \cup { Line("id", x) : x \in S }
    \cup { Line("is_a", x) : x \in S }

\* line[0] == '['
IsSection(ln) == ln.kind \in {"[Term]", "[Typedef]"}

\* A row of on_terms: INSERT INTO on_terms (id, name, namespace, def); the
\* count column is not set.
TermRow(t) ==
    [name |-> t["name"], namespace |-> Get(t, "namespace", None),
     def |-> Get(t, "def", None), count |-> NullCount]

\* The INSERT of a term buffer: [exc, on_terms].  new_term['id'] and
\* new_term['name'] raise KeyError when missing; a second row with the same
\* id violates the primary key.
InsertTerm(t, terms) ==
    IF "id" \notin DOMAIN t \/ "name" \notin DOMAIN t
    THEN [exc |-> "KeyError", on_terms |-> terms]
    ELSE IF t["id"] \in DOMAIN terms
    THEN [exc |-> "IntegrityError", on_terms |-> terms]
    ELSE [exc |-> "none", on_terms |-> Put(terms, t["id"], TermRow(t))]

\* The flush at a [Term] line: only `if new_term`.
BoundaryFlush(t, terms) ==
    IF t # EmptyDict THEN InsertTerm(t, terms) ELSE [exc |-> "none", on_terms |-> terms]

\* The flush after the last line: unconditional.
FinalFlush(t, terms) == InsertTerm(t, terms)

\* Mutation of ExitOnKeyError: the edge is dropped and the loop goes on.
SkipOnKeyError ==
    UNCHANGED <<pc, file, exc, nrows, map_records, new_term, in_term, stanza_is_a, is_a, dbVars, closureVars>>

\* Lines 249-251: new_term['id'] raised KeyError; print and sys.exit(1).
ExitOnKeyError ==
    /\ pc' = "aborted"
    /\ exc' = "SystemExit"
    /\ UNCHANGED <<file, nrows, map_records, new_term, in_term, stanza_is_a, is_a, dbVars, closureVars>>

\* Mutation of InTermAfterSection: a section marker leaves in_term alone.
InTermStays(ln, in) == in

\* in_term after lines 204-205.
InTermAfterSection(ln, in) ==
    IF IsSection(ln) /\ ln.kind # "[Term]" THEN FALSE ELSE in

\* One iteration of `for line in f` on the line ln (blank lines are skipped
\* by the loop and are not counted).
ReadLine(ln) ==
    /\ pc = "import_ontology"
    /\ nlines' = nlines + 1
    /\ line' = ln
    /\ LET in1 == InTermAfterSection(ln, in_term)
           fl == BoundaryFlush(new_term, on_terms)
       IN
       IF ln.kind = "[Term]" /\ fl.exc # "none"
       THEN /\ pc' = "aborted"
            /\ exc' = fl.exc
            /\ UNCHANGED <<file, nrows, map_records, new_term, in_term, stanza_is_a, is_a, dbVars, closureVars>>
       ELSE IF ln.kind = "[Term]"
       THEN /\ on_terms' = fl.on_terms
            /\ committed' = DurableAfterStatement(committed, [Work EXCEPT !.on_terms = fl.on_terms])
            /\ new_term' = EmptyDict
            /\ in_term' = TRUE
            /\ stanza_is_a' = is_a
            /\ UNCHANGED <<pc, file, exc, nrows, map_records, is_a, conn, on_pairs,
                           gene_ontology_map, closureVars>>
       ELSE IF ~in1
       THEN /\ in_term' = in1
            /\ UNCHANGED <<pc, file, exc, nrows, map_records, new_term, stanza_is_a, is_a, dbVars, closureVars>>
       ELSE IF ln.kind = "is_a" /\ "id" \notin DOMAIN new_term
       THEN ExitOnKeyError
       ELSE /\ new_term' =
                 CASE ln.kind \in {"id", "name", "namespace", "def"} ->
                          Put(new_term, ln.kind, ln.arg)
                   [] ln.kind = "is_obsolete" /\ Lower(ln.arg) = "true" -> EmptyDict
                   [] OTHER -> new_term
            /\ in_term' = IF ln.kind = "is_obsolete" /\ Lower(ln.arg) = "true"
                          THEN FALSE ELSE in1
            /\ is_a' = IF ln.kind = "is_a"
                       THEN record_is_a(is_a, new_term["id"], ln.arg)
                       ELSE is_a
            /\ UNCHANGED <<pc, file, exc, nrows, map_records, stanza_is_a, dbVars, closureVars>>

\* Mutation of AfterOntology: the closure is computed as soon as the first
\* file is parsed.
AfterOntologyEarly ==
    IF file < NumOntologies
    THEN pc' = "save_is_a" /\ file' = 0
    ELSE pc' = "import_gene_ontology_mappings" /\ file' = 1

\* What main does when import_ontology returns: the next file, then the
\* annotations.
AfterOntology ==
    IF file < NumOntologies
    THEN pc' = "import_ontology" /\ file' = file + 1
    ELSE pc' = "import_gene_ontology_mappings" /\ file' = 1

\* The file is exhausted: the last term is saved and import_ontology
\* returns.
EndOfInput ==
    /\ pc = "import_ontology"
    /\ LET fl == FinalFlush(new_term, on_terms)
       IN IF fl.exc # "none"
          THEN Abort(fl.exc)
          ELSE /\ on_terms' = fl.on_terms
               /\ committed' = DurableAfterStatement(committed, [Work EXCEPT !.on_terms = fl.on_terms])
               /\ new_term' = EmptyDict
               /\ in_term' = FALSE
               /\ line' = NoLine
               /\ stanza_is_a' = is_a
               /\ AfterOntology
               /\ UNCHANGED <<exc, nlines, nrows, map_records, is_a, conn, on_pairs,
                              gene_ontology_map, closureVars>>

(***************************************************************************)
(* import_gene_ontology_mappings                                           *)
(***************************************************************************)
\* The taxon_id argument of the six calls main makes, in order.
TaxonArgs == <<10090, 9606, 10116, 10090, 10090, 9606>>

\* One value of the pipe-delimited taxon column: its prefix and the rest.
Taxon(prefix, rest) == [prefix |-> prefix, rest |-> rest]

\* int(s) for the strings the model's rows hold; "error" is ValueError.
ToInt(s) ==
    CASE s = "10090" -> 10090
      [] s = "9606" -> 9606
      [] s = "10116" -> 10116
      [] s = "1280" -> 1280
      [] OTHER -> -1

IsInt(s) == s \in {"10090", "9606", "10116", "1280"}

\* Mutation of FirstTaxon: the last value of the column is taken.
LastTaxon(column) ==
    IF column = << >> THEN ""
    ELSE IF column[Len(column)].prefix \in {"taxon:", ""} THEN column[Len(column)].rest
    ELSE column[Len(column)].prefix

\* parts[12].replace("taxon:", "").split("|")[0]: the text of the first
\* value with the prefix "taxon:" removed (any other prefix stays, and the
\* text is then no number); an empty column gives the empty string.
FirstTaxon(column) ==
    IF column = << >> THEN ""
    ELSE IF column[1].prefix \in {"taxon:", ""} THEN column[1].rest
    ELSE column[1].prefix

\* A line of an annotation file.  kind "row" is a tab-separated row with
\* ncols columns; "comment" starts with "!"; "blank" is empty after strip().
Row(kind, ncols, gene, term, column) ==
    [kind |-> kind, ncols |-> ncols, gene |-> gene, term |-> term, taxon |-> column]

\* Mutation of InsertOrReplace: INSERT OR IGNORE, the row that is there stays.
InsertOrIgnore(map, gene, term, taxonid) ==
    IF \E r \in map : r[1] = gene /\ r[2] = term
    THEN map
    ELSE map \cup {<<gene, term, taxonid>>}

\* The INSERT OR REPLACE of one mapping: the row with the same (gene_id,
\* ontology_id), the primary key, is deleted and the new row is inserted.
InsertOrReplace(map, gene, term, taxonid) ==
    {r \in map : ~(r[1] = gene /\ r[2] = term)} \cup {<<gene, term, taxonid>>}

\* Mutation of CursorFails: a cursor is had from a closed connection too.
CursorNeverFails(c) == FALSE

\* db_conn.cursor() raises ProgrammingError on a connection that was closed.
CursorFails(c) == c = "closed"

\* main calls import_gene_ontology_mappings, which asks for a cursor.
CallMappings ==
    /\ pc = "import_gene_ontology_mappings"
    /\ IF CursorFails(conn)
       THEN Abort("ProgrammingError")
       ELSE /\ pc' = "read_rows"
            /\ UNCHANGED <<file, exc, nlines, nrows, map_records, parserVars, is_a, dbVars, closureVars>>

\* What main does when a call returns (the result is not looked at).
AfterMappings ==
    IF file < Len(TaxonArgs)
    THEN pc' = "import_gene_ontology_mappings" /\ file' = file + 1
    ELSE pc' = "save_is_a" /\ file' = 0

\* One iteration of `for line in in_handle`; sinkFails says whether the
\* store rejects the insert with an IntegrityError.
ReadRow(row, sinkFails) ==
    /\ pc = "read_rows"
    /\ nrows' = nrows + 1
    /\ IF row.kind = "blank"
       THEN /\ pc' = "aborted" /\ exc' = "IndexError" /\ line' = row
            /\ UNCHANGED <<file, nlines, map_records, new_term, in_term, stanza_is_a,
                           is_a, dbVars, closureVars>>
       ELSE IF row.kind = "comment"
       THEN /\ line' = row
            /\ UNCHANGED <<pc, file, exc, nlines, map_records, new_term, in_term,
                           stanza_is_a, is_a, dbVars, closureVars>>
       ELSE IF row.ncols < 13
       THEN /\ pc' = "aborted" /\ exc' = "IndexError" /\ line' = row
            /\ UNCHANGED <<file, nlines, map_records, new_term, in_term, stanza_is_a,
                           is_a, dbVars, closureVars>>
       ELSE IF ~IsInt(FirstTaxon(row.taxon))
       THEN /\ pc' = "aborted" /\ exc' = "ValueError" /\ line' = row
            /\ UNCHANGED <<file, nlines, map_records, new_term, in_term, stanza_is_a,
                           is_a, dbVars, closureVars>>
       ELSE IF ToInt(FirstTaxon(row.taxon)) # TaxonArgs[file]
       THEN /\ line' = row
            /\ UNCHANGED <<pc, file, exc, nlines, map_records, new_term, in_term,
                           stanza_is_a, is_a, dbVars, closureVars>>
       ELSE IF sinkFails
       THEN \* rollback(), close(), return False
            /\ on_terms' = committed.on_terms
            /\ on_pairs' = committed.on_pairs
            /\ gene_ontology_map' = committed.gene_ontology_map
            /\ conn' = "closed"
            /\ line' = NoLine
            /\ AfterMappings
            /\ UNCHANGED <<exc, nlines, map_records, new_term, in_term, stanza_is_a,
                           is_a, committed, closureVars>>
       ELSE LET m == InsertOrReplace(gene_ontology_map, row.gene, row.term,
                                     ToInt(FirstTaxon(row.taxon)))
            IN /\ gene_ontology_map' = m
               /\ map_records' = Append(map_records,
                                        <<row.gene, row.term, ToInt(FirstTaxon(row.taxon))>>)
               /\ committed' = DurableAfterStatement(committed,
                                    [Work EXCEPT !.gene_ontology_map = m])
               /\ line' = row
               /\ UNCHANGED <<pc, file, exc, nlines, new_term, in_term, stanza_is_a,
                              is_a, conn, on_terms, on_pairs, closureVars>>

\* The file is exhausted: return True.
EndOfRows ==
    /\ pc = "read_rows"
    /\ line' = NoLine
    /\ AfterMappings
    /\ UNCHANGED <<exc, nlines, nrows, map_records, new_term, in_term, stanza_is_a,
                   is_a, dbVars, closureVars>>

(***************************************************************************)
(* save_is_a                                                               *)
(***************************************************************************)
\* Mutation of InvAdd: the set is created when the key is new, and the
\* child is added only to a set that was there already.
InvAddElse(d, generalized, specialized) ==
    IF generalized \notin DOMAIN d.val
    THEN [keys |-> Append(d.keys, generalized), val |-> Put(d.val, generalized, {})]
    ELSE [d EXCEPT !.val = Put(d.val, generalized, d.val[generalized] \cup {specialized})]

\* Lines 106-108: inv[generalized].add(specialized), the set created when
\* the key is new.
InvAdd(d, generalized, specialized) ==
    LET d1 == IF generalized \notin DOMAIN d.val
              THEN [keys |-> Append(d.keys, generalized),
                    val |-> Put(d.val, generalized, {})]
              ELSE d
    IN [d1 EXCEPT !.val = Put(d1.val, generalized, d1.val[generalized] \cup {specialized})]

\* The inner loop of the inversion, over the parents of one child in the
\* order o.
RECURSIVE InvAddAll(_, _, _)
InvAddAll(d, specialized, o) ==
    IF o = << >> THEN d
    ELSE InvAddAll(InvAdd(d, Head(o), specialized), specialized, Tail(o))

\* Every dict the inversion loop can build from the keys k.. of is_a: the
\* keys are walked in insertion order, each set in any order.
RECURSIVE InvertFrom(_, _, _)
InvertFrom(d, k, acc) ==
    IF k > Len(d.keys) THEN {acc}
    ELSE UNION { InvertFrom(d, k + 1, InvAddAll(acc, d.keys[k], o)) :
                 o \in Orders(d.val[d.keys[k]]) }

Inversions(d) == InvertFrom(d, 1, EmptyOrdered)

\* save_is_a starts: the cursor, then the inversion.
Invert ==
    /\ pc = "save_is_a"
    /\ IF CursorFails(conn)
       THEN Abort("ProgrammingError")
       ELSE /\ \E v \in Inversions(is_a) : inv' = v
            /\ pc' = "propagate"
            /\ g' = 1
            /\ l' = << >>
            /\ i' = 0
            /\ UNCHANGED <<file, exc, nlines, nrows, map_records, parserVars, is_a, dbVars>>

\* `generalized`, while propagating.
Generalized == inv.keys[g]

\* Mutation of Expand: the children are added to a copy, not to the set
\* inv holds.
ExpandNothing(d, generalized, ss) == d

\* Lines 125-126: every element of ss is added to s, which is the very set
\* inv[generalized] holds.
Expand(d, generalized, ss) ==
    [d EXCEPT !.val[generalized] = @ \cup ss]

\* s = inv[generalized]; l = list(s)
BeginParent ==
    /\ pc = "propagate"
    /\ i = 0
    /\ g <= Len(inv.keys)
    /\ \E o \in Orders(inv.val[Generalized]) : l' = o
    /\ i' = 1
    /\ UNCHANGED <<pc, file, exc, nlines, nrows, map_records, parserVars, is_a, dbVars, inv, g>>

\* Mutation of WalkStep: the children are added to s and not appended to l.
WalkStepNoAppend ==
    /\ pc = "propagate"
    /\ i >= 1
    /\ i <= Len(l)
    /\ Len(l) < MaxFrontier
    /\ LET id == l[i]
       IN IF id \in DOMAIN inv.val
          THEN inv' = Expand(inv, Generalized, inv.val[id]) /\ l' = l
          ELSE UNCHANGED <<inv, l>>
    /\ i' = i + 1
    /\ UNCHANGED <<pc, file, exc, nlines, nrows, map_records, parserVars, is_a, dbVars, g>>

\* Mutation of WalkStep: a child is added and appended only when s does not
\* hold it yet.
WalkStepIfNew ==
    /\ pc = "propagate"
    /\ i >= 1
    /\ i <= Len(l)
    /\ Len(l) < MaxFrontier
    /\ LET id == l[i]
       IN IF id \in DOMAIN inv.val
          THEN \E o \in Orders(inv.val[id] \ inv.val[Generalized]) :
                  /\ inv' = Expand(inv, Generalized, inv.val[id])
                  /\ l' = l \o o
          ELSE UNCHANGED <<inv, l>>
    /\ i' = i + 1
    /\ UNCHANGED <<pc, file, exc, nlines, nrows, map_records, parserVars, is_a, dbVars, g>>

\* One iteration of `for id in l`.
WalkStep ==
    /\ pc = "propagate"
    /\ i >= 1
    /\ i <= Len(l)
    /\ Len(l) < MaxFrontier
    /\ LET id == l[i]
       IN IF id \in DOMAIN inv.val
          THEN \E o \in Orders(inv.val[id]) :
                  /\ inv' = Expand(inv, Generalized, inv.val[id])
                  /\ l' = l \o o
          ELSE UNCHANGED <<inv, l>>
    /\ i' = i + 1
    /\ UNCHANGED <<pc, file, exc, nlines, nrows, map_records, parserVars, is_a, dbVars, g>>

\* Mutation of NextParent: the same key of inv is visited again.
NextParentAgain ==
    /\ pc = "propagate"
    /\ i >= 1
    /\ i > Len(l)
    /\ i' = 0
    /\ l' = << >>
    /\ UNCHANGED <<pc, file, exc, nlines, nrows, map_records, parserVars, is_a, dbVars, inv, g>>

\* l is exhausted: the next key of inv.
NextParent ==
    /\ pc = "propagate"
    /\ i >= 1
    /\ i > Len(l)
    /\ g' = g + 1
    /\ i' = 0
    /\ l' = << >>
    /\ UNCHANGED <<pc, file, exc, nlines, nrows, map_records, parserVars, is_a, dbVars, inv>>

\* Propagation is done.
EndPropagate ==
    /\ pc = "propagate"
    /\ i = 0
    /\ g > Len(inv.keys)
    /\ pc' = "persist"
    /\ g' = 1
    /\ i' = 1
    /\ UNCHANGED <<file, exc, nlines, nrows, map_records, parserVars, is_a, dbVars, inv, l>>

\* Mutation of SortedParents: the keys in the order inv keeps them.
ParentsAsKept == inv.keys

\* sorted(inv.keys())
SortedParents == Sorted(DOMAIN inv.val)

\* Mutation of Children: the list that was walked, with its repetitions.
ChildrenWalked(generalized) == Sorted(inv.val[generalized]) \o Sorted(inv.val[generalized])

\* sorted(list(inv[generalized]))
Children(generalized) == Sorted(inv.val[generalized])

\* INSERT INTO on_pairs (parent, child, relationship) VALUES (?, ?, 'is_a')
InsertPair ==
    /\ pc = "persist"
    /\ g <= Len(SortedParents)
    /\ i <= Len(Children(SortedParents[g]))
    /\ on_pairs' = Append(on_pairs, <<SortedParents[g], Children(SortedParents[g])[i], "is_a">>)
    /\ committed' = DurableAfterStatement(committed, [Work EXCEPT !.on_pairs = on_pairs'])
    /\ i' = i + 1
    /\ UNCHANGED <<pc, file, exc, nlines, nrows, map_records, parserVars, is_a, conn, on_terms,
                   gene_ontology_map, inv, g, l>>

\* len(inv[generalized])
CountOf(generalized) == Cardinality(inv.val[generalized])

\* UPDATE on_terms SET count = ? WHERE id = ?
UpdateCount ==
    /\ pc = "persist"
    /\ g <= Len(SortedParents)
    /\ i > Len(Children(SortedParents[g]))
    /\ LET p == SortedParents[g]
       IN on_terms' = IF p \in DOMAIN on_terms
                      THEN [on_terms EXCEPT ![p].count = <<CountOf(p)>>]
                      ELSE on_terms
    /\ committed' = DurableAfterStatement(committed, [Work EXCEPT !.on_terms = on_terms'])
    /\ g' = g + 1
    /\ i' = 1
    /\ UNCHANGED <<pc, file, exc, nlines, nrows, map_records, parserVars, is_a, conn, on_pairs,
                   gene_ontology_map, inv, l>>

\* save_is_a returns and main commits.
Commit ==
    /\ pc = "persist"
    /\ g > Len(SortedParents)
    /\ committed' = Work
    /\ pc' = "done"
    /\ UNCHANGED <<file, exc, nlines, nrows, map_records, parserVars, is_a, conn, on_terms,
                   on_pairs, gene_ontology_map, closureVars>>

(***************************************************************************)
(* Specifications.                                                         *)
(***************************************************************************)
Genes == {"g1"}

\* The annotation lines fed to a run of main.
MainRows ==
    { Row("comment", 0, "", "", << >>), Row("blank", 0, "", "", << >>),
      Row("row", 12, "g1", "A", << >>),
      Row("row", 15, "g1", "A", <<Taxon("taxon:", "x")>>) }
    \cup { Row("row", 15, gene, "A", <<Taxon("taxon:", t)>>) :
           gene \in Genes, t \in {"10090", "9606"} }

\* The ontology lines fed to a run of main: the tags that decide what is
\* stored and which edges are recorded.
MainLines ==
    { ln \in Lines(MainIds) :
        /\ ln.kind \notin {"namespace", "def", "other"}
        /\ ln.arg \notin {"True", "false"} }

ReadLineMain == \E ln \in MainLines : nlines < MaxLinesMain /\ ReadLine(ln)

ReadRowMain ==
    \E row \in MainRows, sinkFails \in BOOLEAN : nrows < MaxRowsMain /\ ReadRow(row, sinkFails)

Next ==
    \/ create_tables
    \/ ReadLineMain
    \/ EndOfInput
    \/ CallMappings
    \/ ReadRowMain
    \/ EndOfRows
    \/ Invert
    \/ BeginParent
    \/ WalkStep
    \/ NextParent
    \/ EndPropagate
    \/ InsertPair
    \/ UpdateCount
    \/ Commit

Spec == Init /\ [][Next]_vars

\* The direct children of p under the accumulated edges.
DirectChildren(d, p) == {c \in DOMAIN d.val : p \in d.val[c]}

\* The least set that holds S and the direct children of its members.
RECURSIVE Grow(_, _)
Grow(d, S) ==
    LET S2 == S \cup UNION {DirectChildren(d, x) : x \in S}
    IN IF S2 = S THEN S ELSE Grow(d, S2)

\* The terms reachable from p by one or more inverted is_a edges.
Descendants(d, p) == Grow(d, DirectChildren(d, p))

\* No term is its own descendant.
Acyclic(d) == \A x \in Ids : x \notin Descendants(d, x)

\* Every accumulator that at most n calls of record_is_a build.
RECURSIVE Accumulations(_)
Accumulations(n) ==
    IF n = 0 THEN {EmptyOrdered}
    ELSE LET P == Accumulations(n - 1)
         IN P \cup {record_is_a(d, t, p) : d \in P, t \in Ids, p \in Ids}

\* The rows of on_terms after the stanzas of the terms S were stored.
TermsOf(S) == [x \in S |-> TermRow([id |-> x, name |-> "n"])]

\* save_is_a is about to run on an acyclic accumulator: the annotations are
\* loaded, the terms of all but at most one id are stored.
InitClosure ==
    /\ pc = "save_is_a"
    /\ file = 0
    /\ exc = "none"
    /\ nlines = 0
    /\ nrows = 0
    /\ map_records = << >>
    /\ new_term = EmptyDict
    /\ in_term = FALSE
    /\ line = NoLine
    /\ is_a \in {d \in Accumulations(MaxEdges) : Acyclic(d)}
    /\ stanza_is_a = is_a
    /\ conn = "open"
    /\ on_terms \in {TermsOf(Ids)} \cup {TermsOf(Ids \ {x}) : x \in Ids}
    /\ on_pairs = << >>
    /\ gene_ontology_map = {}
    /\ committed = EmptyTables
    /\ inv = EmptyOrdered
    /\ g = 0
    /\ l = << >>
    /\ i = 0

NextClosure ==
    \/ Invert
    \/ BeginParent
    \/ WalkStep
    \/ NextParent
    \/ EndPropagate
    \/ InsertPair
    \/ UpdateCount
    \/ Commit

SpecClosure == InitClosure /\ [][NextClosure]_vars

\* save_is_a is about to run on any accumulator, cyclic or not, of at most
\* MaxEdges edges over the ids of MainIds; the terms of Ids are stored.
InitAnyGraph ==
    /\ pc = "save_is_a"
    /\ file = 0
    /\ exc = "none"
    /\ nlines = 0
    /\ nrows = 0
    /\ map_records = << >>
    /\ new_term = EmptyDict
    /\ in_term = FALSE
    /\ line = NoLine
    /\ is_a \in {d \in Accumulations(MaxEdges) : Edges(d) \subseteq MainIds \X MainIds}
    /\ stanza_is_a = is_a
    /\ conn = "open"
    /\ on_terms = TermsOf(Ids)
    /\ on_pairs = << >>
    /\ gene_ontology_map = {}
    /\ committed = EmptyTables
    /\ inv = EmptyOrdered
    /\ g = 0
    /\ l = << >>
    /\ i = 0

SpecAnyGraph == InitAnyGraph /\ [][NextClosure]_vars

ReadLineParser == \E ln \in Lines(Ids) : nlines < MaxLinesParser /\ ReadLine(ln)

NextParser == create_tables \/ ReadLineParser \/ EndOfInput

SpecParser == Init /\ [][NextParser]_vars

\* The annotation lines fed to the mapping loader: comments (one of them a
\* "!" header of 12 column names), a header of 12 names without the "!", a
\* blank line, a short row, a row whose taxon is no number, and rows with
\* one or two taxon values.
MappingRows ==
    { Row("comment", 0, "", "", << >>),
      Row("comment", 12, "DB_Object_ID", "GO_ID", << >>),
      Row("row", 12, "DB_Object_ID", "GO_ID", << >>),
      Row("blank", 0, "", "", << >>),
      Row("row", 12, "g1", "A", << >>),
      Row("row", 15, "g1", "A", <<Taxon("taxon:", "x")>>) }
    \cup { Row("row", 15, "g1", term, column) :
           term \in {"A", "B"},
           column \in { <<Taxon("taxon:", "10090")>>,
                        <<Taxon("taxon:", "9606")>>,
                        <<Taxon("taxon:", "9606"), Taxon("taxon:", "1280")>>,
                        <<Taxon("taxon:", "1280"), Taxon("taxon:", "9606")>> } }

\* main is about to make the first of its six annotation calls: the three
\* ontology files stored the terms of Ids and recorded no edge.
InitMapping ==
    /\ pc = "import_gene_ontology_mappings"
    /\ file = 1
    /\ exc = "none"
    /\ nlines = 0
    /\ nrows = 0
    /\ map_records = << >>
    /\ new_term = EmptyDict
    /\ in_term = FALSE
    /\ line = NoLine
    /\ is_a = EmptyOrdered
    /\ stanza_is_a = is_a
    /\ conn = "open"
    /\ on_terms = TermsOf(Ids)
    /\ on_pairs = << >>
    /\ gene_ontology_map = {}
    /\ committed = EmptyTables
    /\ inv = EmptyOrdered
    /\ g = 0
    /\ l = << >>
    /\ i = 0

ReadRowMapping ==
    \E row \in MappingRows, sinkFails \in BOOLEAN :
        nrows < MaxRowsMapping /\ ReadRow(row, sinkFails)

NextMapping == CallMappings \/ ReadRowMapping \/ EndOfRows

SpecMapping == InitMapping /\ [][NextMapping]_vars

(***************************************************************************)
(* Properties.                                                             *)
(***************************************************************************)
\* The <<parent, child>> pairs of the rows of a table on_pairs.
Pairs(rows) == { <<rows[k][1], rows[k][2]>> : k \in 1..Len(rows) }

\* The rows of on_pairs whose parent is p.
RowsOf(rows, p) == { k \in 1..Len(rows) : rows[k][1] = p }

\* Where p stands in the keys of inv (0 when it is no key).
Pos(p) == IF p \in DOMAIN inv.val
          THEN CHOOSE k \in 1..Len(inv.keys) : inv.keys[k] = p
          ELSE 0

\* The propagation loop is through with the key p of inv.
Finished(p) ==
    \/ pc \in {"persist", "done"}
    \/ pc = "propagate" /\ Pos(p) < g
    \/ pc = "propagate" /\ Pos(p) = g /\ i >= 1 /\ i > Len(l)

\* C1: for an acyclic accumulator, the pairs save_is_a has stored when the
\* run is done hold the inverse of every recorded edge and are transitively
\* closed.
C1_ClosureHoldsEdgesAndIsTransitive ==
    (pc = "done" /\ Acyclic(is_a)) =>
        LET C == Pairs(on_pairs)
        IN /\ \A e \in Edges(is_a) : <<e[2], e[1]>> \in C
           /\ \A x \in C, y \in C : x[2] = y[1] => <<x[1], y[2]>> \in C

C1_Witness ==
    /\ pc = "done"
    /\ Edges(is_a) = { <<"B", "A">>, <<"C", "B">> }
    /\ Pairs(on_pairs) = { <<"A", "B">>, <<"A", "C">>, <<"B", "C">> }

\* C2: for an acyclic accumulator, once the propagation loop is through with
\* a parent, the set inv holds for it is exactly the set of its descendants
\* at every depth; and every term with a direct child is a key of inv.
C2_WorkingSetIsDescendants ==
    Acyclic(is_a) =>
        /\ \A p \in DOMAIN inv.val : Finished(p) => inv.val[p] = Descendants(is_a, p)
        /\ pc \in {"propagate", "persist", "done"} =>
               DOMAIN inv.val = { p \in Ids : DirectChildren(is_a, p) # {} }

\* A parent p is finished after a child q of it whose set had already been
\* expanded in place when p read it.
C2_Witness ==
    /\ pc = "propagate"
    /\ \E p \in DOMAIN inv.val, q \in DOMAIN inv.val :
          /\ Finished(p)
          /\ Pos(q) < Pos(p)
          /\ q \in DirectChildren(is_a, p)
          /\ inv.val[q] # DirectChildren(is_a, q)
          /\ inv.val[p] # DirectChildren(is_a, p)

\* C3: when the run is done, the count stored for a term with a direct child
\* is the number of rows of on_pairs it is the parent of, and the count
\* stored for any other term is 0.
C3_CountsMatchPairs ==
    pc = "done" =>
        \A p \in DOMAIN on_terms :
            on_terms[p].count =
                IF DirectChildren(is_a, p) # {}
                THEN <<Cardinality(RowsOf(on_pairs, p))>>
                ELSE <<0>>

\* The step that processes an `is_obsolete: true` line inside a term stanza.
ObsoleteStep ==
    /\ pc = "import_ontology"
    /\ nlines' = nlines + 1
    /\ in_term
    /\ line'.kind = "is_obsolete"
    /\ Lower(line'.arg) = "true"

\* C4: processing `is_obsolete: true` leaves no term buffer, stores no Term
\* record and leaves the accumulator as it was when the stanza began; and
\* an is_a line that follows it in the stanza records nothing.
C4_ObsoleteStanzaLeavesNothing ==
    /\ [][ObsoleteStep =>
            /\ new_term' = EmptyDict
            /\ on_terms' = on_terms
            /\ is_a' = stanza_is_a]_vars
    /\ [][(pc = "import_ontology" /\ ~in_term /\ line'.kind = "is_a") =>
            is_a' = is_a]_vars

\* The step in which the input of the current file is exhausted.
EndOfInputStep ==
    /\ pc = "import_ontology"
    /\ nlines' = nlines
    /\ (pc' # pc \/ file' # file)

\* C5: at end of input the buffer is flushed as a [Term] line would flush
\* it: the same rows of on_terms, the same error or none.
C5_FinalFlushLikeBoundaryFlush ==
    [][EndOfInputStep =>
          LET b == BoundaryFlush(new_term, on_terms)
          IN exc' = b.exc /\ on_terms' = b.on_terms]_vars

\* C6: on_pairs never holds two rows for the same ancestor and descendant.
C6_NoDuplicatePairs ==
    \A j \in 1..Len(on_pairs), k \in 1..Len(on_pairs) :
        (on_pairs[j][1] = on_pairs[k][1] /\ on_pairs[j][2] = on_pairs[k][2]) => j = k

\* The diamond: B is_a A, C is_a B, D is_a B, D is_a C.
C6_Witness ==
    /\ pc = "done"
    /\ Edges(is_a) = { <<"B", "A">>, <<"C", "B">>, <<"D", "B">>, <<"D", "C">> }
    /\ Cardinality({ k \in 1..Len(on_pairs) : on_pairs[k] = <<"A", "D", "is_a">> }) = 1
    /\ "A" \in DOMAIN on_terms
    /\ on_terms["A"].count = <<3>>

\* C7: save_is_a is entered only when the last annotation call returns, the
\* annotation calls are entered only when the last import_ontology call
\* returns, no edge is recorded outside import_ontology, and save_is_a is
\* not entered again once it has started.
C7_ClosureAfterAllParsing ==
    /\ [][(pc # "save_is_a" /\ pc' = "save_is_a") =>
              (pc = "read_rows" /\ file = Len(TaxonArgs))]_vars
    /\ [][(pc = "import_ontology" /\ pc' \notin {"import_ontology", "aborted"}) =>
              (file = NumOntologies /\ pc' = "import_gene_ontology_mappings")]_vars
    /\ [][(pc' = "import_ontology") => (pc \in {"create_tables", "import_ontology"})]_vars
    /\ [][(is_a' # is_a) => (pc = "import_ontology" /\ pc' = "import_ontology")]_vars
    /\ [][(pc \in {"propagate", "persist", "done"}) =>
              (pc' \in {"propagate", "persist", "done"} /\
               (\A p \in Ids : DirectChildren(is_a, p) \subseteq Get(inv.val, p, {})))]_vars

\* A run that is done, whose edges come from the stanzas of two files.
C7_Witness ==
    /\ pc = "done"
    /\ Cardinality(DOMAIN is_a.val) = 2
    /\ Len(on_pairs) = 3

\* Some closure pair or descendant count is durable.
ClosureVisible ==
    \/ committed.on_pairs # << >>
    \/ \E t \in DOMAIN committed.on_terms : committed.on_terms[t].count # NullCount

\* C8: when a closure pair or a count is durable, the run is done and all of
\* its pairs and counts are durable.
C8_NoPartialClosureVisible ==
    ClosureVisible =>
        /\ pc = "done"
        /\ committed.on_pairs = on_pairs
        /\ Pairs(committed.on_pairs) =
             { e \in Ids \X Ids : e[2] \in Descendants(is_a, e[1]) }
        /\ \A t \in DOMAIN committed.on_terms :
             Descendants(is_a, t) # {} =>
                 committed.on_terms[t].count = <<Cardinality(Descendants(is_a, t))>>

\* Pairs are written on the connection and none of them is durable yet.
C8_Witness ==
    /\ pc = "persist"
    /\ Len(on_pairs) >= 2
    /\ committed.on_pairs = << >>

\* C9: once an insert has failed with an integrity error (the connection is
\* closed by the mapping loader, or the run ended with the error), the run is
\* never done and nothing of it is durable; what the connection had written
\* is rolled back.
C9_FailedInsertCommitsNothing ==
    /\ (conn = "closed" \/ exc = "IntegrityError") =>
           (pc # "done" /\ committed = EmptyTables)
    /\ conn = "closed" => Work = EmptyTables

\* A mapping insert failed after terms and an edge were read, and the run
\* ended at the next cursor.
C9_Witness ==
    /\ conn = "closed"
    /\ pc = "aborted"
    /\ exc = "ProgrammingError"
    /\ is_a # EmptyOrdered

\* The step that processes an is_a line while the buffer has no id.
IsAWithoutIdStep ==
    /\ pc = "import_ontology"
    /\ nlines' = nlines + 1
    /\ in_term
    /\ line'.kind = "is_a"
    /\ "id" \notin DOMAIN new_term

\* C10: an is_a line processed for a buffer with no id ends the run with
\* sys.exit: no edge is recorded, no row is written, and no step follows.
C10_IsAWithoutIdAborts ==
    /\ [][IsAWithoutIdStep =>
            /\ pc' = "aborted"
            /\ exc' = "SystemExit"
            /\ is_a' = is_a
            /\ on_terms' = on_terms]_vars
    /\ [][(pc # "aborted")]_vars

\* The run ended on such a line after a term had been stored.
C10_Witness ==
    /\ pc = "aborted"
    /\ exc = "SystemExit"
    /\ line.kind = "is_a"
    /\ on_terms # EmptyDict
    /\ new_term # EmptyDict

\* The step that reads a row of at least 13 columns whose taxon column is a
\* pipe-delimited list of values taxon:<number>.
TaxonRowStep ==
    /\ pc = "read_rows"
    /\ nrows' = nrows + 1
    /\ line'.kind = "row"
    /\ line'.ncols >= 13
    /\ line'.taxon # << >>
    /\ \A k \in 1..Len(line'.taxon) :
          line'.taxon[k].prefix = "taxon:" /\ IsInt(line'.taxon[k].rest)

\* C11: a row with a taxon column is accepted exactly when the first value
\* of the column is the requested taxon: then its (gene, term, taxon) is
\* written; otherwise the loader goes on with no error and writes nothing.
\* taxon:9606|taxon:1280 is accepted for 9606, taxon:1280|taxon:9606 is not.
C11_AcceptedIffFirstTaxonMatches ==
    /\ [][TaxonRowStep =>
            (IF ToInt(line'.taxon[1].rest) = TaxonArgs[file]
             THEN /\ map_records' = Append(map_records,
                                           <<line'.gene, line'.term, TaxonArgs[file]>>)
                  /\ <<line'.gene, line'.term, TaxonArgs[file]>> \in gene_ontology_map'
                  /\ pc' = pc /\ exc' = exc
             ELSE /\ pc' = pc /\ exc' = exc
                  /\ UNCHANGED <<map_records, dbVars>>)]_vars
    /\ [][(TaxonRowStep /\ TaxonArgs[file] = 9606) =>
            /\ (line'.taxon = <<Taxon("taxon:", "9606"), Taxon("taxon:", "1280")>>) =>
                   (<<line'.gene, line'.term, 9606>> \in gene_ontology_map')
            /\ (line'.taxon = <<Taxon("taxon:", "1280"), Taxon("taxon:", "9606")>>) =>
                   (gene_ontology_map' = gene_ontology_map /\ pc' = "read_rows")]_vars

\* In the human file, the row of gene g1 and term A was taken, and the row
\* taxon:1280|taxon:9606 of term B, read after it, was skipped.
C11_Witness ==
    /\ pc = "read_rows"
    /\ file = 2
    /\ nrows = 2
    /\ line = Row("row", 15, "g1", "B",
                  <<Taxon("taxon:", "1280"), Taxon("taxon:", "9606")>>)
    /\ map_records = << <<"g1", "A", 9606>> >>
    /\ gene_ontology_map = { <<"g1", "A", 9606>> }
    /\ exc = "none"

\* The records of a history that no later record of the same (gene, term)
\* follows.
LastWins(records) ==
    { records[k] : k \in { k \in 1..Len(records) :
          \A j \in (k + 1)..Len(records) :
              ~(records[j][1] = records[k][1] /\ records[j][2] = records[k][2]) } }

\* gene_ontology_map has one row per (gene, term) at most, and on an open
\* connection its rows are the last record taken for each pair.
OneRowPerPairLastWins ==
    /\ \A r1 \in gene_ontology_map, r2 \in gene_ontology_map :
          (r1[1] = r2[1] /\ r1[2] = r2[2]) => r1 = r2
    /\ conn = "open" => gene_ontology_map = LastWins(map_records)

\* C12: after every step, gene_ontology_map holds at most one row for a
\* (gene id, term id), the row of the last accepted record of that pair
\* whatever files the records came from; and taking a record whose row is
\* in the table already leaves the table as it was.
C12_InsertOrReplaceLastWins ==
    [][/\ OneRowPerPairLastWins'
       /\ (map_records' # map_records /\
             map_records'[Len(map_records')] \in gene_ontology_map) =>
               (gene_ontology_map' = gene_ontology_map)]_vars

\* The pair (g1, A) was taken for the mouse, then for the human, then the
\* human row once more: one row, with the human taxon.
C12_Witness ==
    /\ map_records = << <<"g1", "A", 10090>>, <<"g1", "A", 9606>>, <<"g1", "A", 9606>> >>
    /\ gene_ontology_map = { <<"g1", "A", 9606>> }
    /\ conn = "open"

\* The step that reads the first line of an annotation file.
FirstLineStep ==
    /\ pc = "read_rows"
    /\ line = NoLine
    /\ nrows' = nrows + 1

\* The line is a header (it names the columns) with fewer than 13 names, so
\* that the taxon column is not among them.
HeaderMissingColumn(ln) == ln.gene = "DB_Object_ID" /\ ln.ncols < 13

\* C13: when the first line of an annotation file is a header that lacks a
\* required column, the load of that file ends there, before a row is read,
\* and nothing is written.
C13_HeaderValidatedBeforeRows ==
    [][(FirstLineStep /\ HeaderMissingColumn(line')) =>
          (pc' # "read_rows" /\ gene_ontology_map' = gene_ontology_map)]_vars

\* The step that reads a malformed line: a blank line, a row of fewer than
\* 13 columns, or a row whose first taxon value is no number.
MalformedRowStep ==
    /\ pc = "read_rows"
    /\ nrows' = nrows + 1
    /\ \/ line'.kind = "blank"
       \/ line'.kind = "row" /\ line'.ncols < 13
       \/ line'.kind = "row" /\ line'.ncols >= 13 /\
            (line'.taxon = << >> \/ ~IsInt(line'.taxon[1].rest))

\* C14: a malformed line is passed over: the loader goes on reading the
\* file with no error, so the valid rows that follow can be accepted.
C14_MalformedRowDoesNotBlock ==
    [][MalformedRowStep => (pc' = "read_rows" /\ exc' = "none")]_vars

\* The transitive closure of a relation over Ids, by repeated composition.
RECURSIVE TransitiveClosure(_)
TransitiveClosure(R) ==
    LET R2 == R \cup { e \in Ids \X Ids :
                          \E m \in Ids : <<e[1], m>> \in R /\ <<m, e[2]>> \in R }
    IN IF R2 = R THEN R ELSE TransitiveClosure(R2)

\* The closure pairs of a set of (child, parent) edges: a function of the
\* set alone.
ClosureOfEdges(E) == TransitiveClosure({ <<e[2], e[1]>> : e \in E })

\* C15: for an acyclic accumulator, the descendant sets save_is_a ends with,
\* and the set of pairs it stores, are a function of the set of edges: the
\* same in every order of the keys of is_a and inv and in every iteration
\* order of the sets.
C15_ClosureIndependentOfOrder ==
    (Acyclic(is_a) /\ pc \in {"persist", "done"}) =>
        LET C == ClosureOfEdges(Edges(is_a))
        IN /\ \A p \in Ids : Get(inv.val, p, {}) = { c \in Ids : <<p, c>> \in C }
           /\ pc = "done" => Pairs(on_pairs) = C

\* The chain D is_a C is_a B is_a A, with the parents visited deepest
\* first: each set was expanded in place before the next parent read it.
C15_Witness ==
    /\ pc = "done"
    /\ Edges(is_a) = { <<"B", "A">>, <<"C", "B">>, <<"D", "C">> }
    /\ inv.keys = <<"C", "B", "A">>
    /\ Len(on_pairs) = 6

\* The rows of on_pairs ascend by parent, then by child.
PairsAscending(rows) ==
    \A j \in 1..Len(rows), k \in 1..Len(rows) :
        j < k => \/ Rank(rows[j][1]) < Rank(rows[k][1])
                 \/ rows[j][1] = rows[k][1] /\ Rank(rows[j][2]) < Rank(rows[k][2])

\* C16: the rows of on_pairs are inserted in ascending order of ancestor,
\* then descendant; the count of an ancestor is updated when all of its
\* pairs and no pair of a later ancestor are inserted, and a pair is
\* inserted only when the counts of all earlier ancestors are updated and
\* the count of its own ancestor is not.
C16_PersistedInOrder ==
    [][/\ PairsAscending(on_pairs')
       /\ \A p \in DOMAIN on_terms :
             (pc = "persist" /\ on_terms'[p] # on_terms[p]) =>
                 /\ p \in DOMAIN inv.val
                 /\ { on_pairs[k][2] : k \in RowsOf(on_pairs, p) } = inv.val[p]
                 /\ \A k \in 1..Len(on_pairs) : Rank(on_pairs[k][1]) <= Rank(p)
                 /\ on_pairs' = on_pairs
       /\ (on_pairs' # on_pairs) =>
             LET q == on_pairs'[Len(on_pairs')][1]
             IN /\ on_pairs' = Append(on_pairs, on_pairs'[Len(on_pairs')])
                /\ \A p \in DOMAIN inv.val \cap DOMAIN on_terms :
                      /\ Rank(p) < Rank(q) => on_terms[p].count = <<Cardinality(inv.val[p])>>
                      /\ Rank(p) >= Rank(q) => on_terms[p].count = NullCount]_vars

\* The chain C is_a B is_a A, with B kept before A in inv: the pairs of A
\* are stored and counted, the first pair of B is stored and not counted.
C16_Witness ==
    /\ pc = "persist"
    /\ inv.keys = <<"B", "A">>
    /\ on_pairs = << <<"A", "B", "is_a">>, <<"A", "C", "is_a">>, <<"B", "C", "is_a">> >>
    /\ "A" \in DOMAIN on_terms /\ on_terms["A"].count = <<2>>
    /\ "B" \in DOMAIN on_terms /\ on_terms["B"].count = NullCount

\* C17: for an acyclic accumulator, no id stands twice in the list l that
\* is walked for a parent.
C17_PushedAtMostOnce ==
    Acyclic(is_a) =>
        \A j \in 1..Len(l), k \in 1..Len(l) : l[j] = l[k] => j = k

\* The descendants of every id, as a function.
DescendantsOf(d) == [x \in Ids |-> Descendants(d, x)]

\* The length the list l reaches at most when it holds x and is walked to
\* its end: x, and what every descendant of x adds in its turn.  D is the
\* function DescendantsOf of an acyclic accumulator.
RECURSIVE Weight(_, _), SumWeights(_, _)
Weight(D, x) == 1 + SumWeights(D, D[x])

SumWeights(D, S) ==
    IF S = {} THEN 0
    ELSE LET c == CHOOSE c \in S : TRUE
         IN Weight(D, c) + SumWeights(D, S \ {c})

\* The sum of Weight over the entries k.. of a list.
RECURSIVE ListWeight(_, _, _)
ListWeight(D, list, k) ==
    IF k > Len(list) THEN 0 ELSE Weight(D, list[k]) + ListWeight(D, list, k + 1)

\* What is left of the propagation loop: the parents still to visit, and
\* the weight of what is not yet walked for the parent being visited.
Variant ==
    LET D == DescendantsOf(is_a)
    IN << Len(inv.keys) + 1 - g,
          IF i >= 1 THEN ListWeight(D, l, i)
          ELSE IF g <= Len(inv.keys) THEN 1 + SumWeights(D, inv.val[Generalized])
          ELSE 0 >>

\* The lexicographic order on pairs of naturals.
LexLess(a, b) == a[1] < b[1] \/ (a[1] = b[1] /\ a[2] < b[2])

\* C18: for every acyclic accumulator, every step of the propagation loop
\* either leaves the loop for the storing of the pairs or lowers a variant
\* over the naturals (so the walk of each list, which grows while it is
\* walked, comes to its end), and the loop never stops short of that: the
\* list stays below the bound MaxFrontier while entries are left to walk.
C18_PropagationTerminates ==
    [][Acyclic(is_a) =>
         /\ (pc = "propagate") =>
               \/ pc' = "persist" /\ g > Len(inv.keys)
               \/ pc' = "propagate" /\ LexLess(Variant', Variant)
         /\ (pc' = "propagate") =>
               (i' = 0 \/ i' > Len(l') \/ Len(l') < MaxFrontier)]_vars

\* The list of a parent is walked to its end after it grew, while it was
\* walked, to more than twice the children the parent has.
C18_Witness ==
    /\ pc = "propagate"
    /\ Acyclic(is_a)
    /\ i > Len(l)
    /\ Len(l) > 2 * Cardinality(DirectChildren(is_a, Generalized))

\* The term x lies on a cycle of the recorded edges, or has a descendant
\* that does.
ReachesCycle(d, x) ==
    \E y \in {x} \cup Descendants(d, x) : y \in Descendants(d, y)

\* C19: when the accumulator has a cycle, save_is_a never leaves the
\* propagation loop and nothing is stored: the list of a parent that
\* reaches a cycle always has an entry left to walk, however long it has
\* grown, and between two parents such a parent is still to be visited.
C19_CycleNeverReachesFixedPoint ==
    ~Acyclic(is_a) =>
        /\ pc \in {"save_is_a", "propagate"}
        /\ on_pairs = << >>
        /\ \A t \in DOMAIN on_terms : on_terms[t].count = NullCount
        /\ committed = EmptyTables
        /\ (pc = "propagate" /\ i >= 1 /\ ReachesCycle(is_a, Generalized)) => i <= Len(l)
        /\ (pc = "propagate" /\ i = 0) =>
              \E k \in g..Len(inv.keys) : ReachesCycle(is_a, inv.keys[k])

\* A first parent was walked to its end, and the list of the second, which
\* reaches a cycle, has grown to the bound.
C19_Witness ==
    /\ ~Acyclic(is_a)
    /\ pc = "propagate"
    /\ g = 2
    /\ Len(l) >= MaxFrontier

\* The step that reads a section marker other than [Term].
SectionStep ==
    /\ pc = "import_ontology"
    /\ nlines' = nlines + 1
    /\ line'.kind = "[Typedef]"

\* The step that reads a line other than [Term] outside a term stanza.
SkippedLineStep ==
    /\ pc = "import_ontology"
    /\ nlines' = nlines + 1
    /\ ~in_term
    /\ line'.kind # "[Term]"

\* A term buffer is pending outside a term stanza (a section marker ended
\* the stanza), and it can be stored: it has id and name, and its id is new.
PendingTerm ==
    /\ pc = "import_ontology"
    /\ ~in_term
    /\ new_term # EmptyDict
    /\ "id" \in DOMAIN new_term
    /\ "name" \in DOMAIN new_term
    /\ new_term["id"] \notin DOMAIN on_terms

\* on_terms2 is on_terms1 and one more row, that of the buffer t.
WrittenOnce(t, on_terms1, on_terms2) ==
    /\ DOMAIN on_terms2 = DOMAIN on_terms1 \cup {t["id"]}
    /\ \A x \in DOMAIN on_terms1 : on_terms2[x] = on_terms1[x]
    /\ on_terms2[t["id"]].name = t["name"]

\* C20: a section marker other than [Term] ends the stanza and changes
\* neither the term buffer, nor the accumulator, nor on_terms; so does
\* every line of the section; and the pending buffer is stored, once, by
\* the next [Term] line or by the end of the input, which empties it.
C20_SectionMarkerLeavesPendingTerm ==
    /\ [][SectionStep =>
            /\ in_term' = FALSE
            /\ pc' = pc
            /\ UNCHANGED <<new_term, is_a, on_terms>>]_vars
    /\ [][SkippedLineStep =>
            /\ in_term' = FALSE
            /\ pc' = pc
            /\ UNCHANGED <<new_term, is_a, on_terms>>]_vars
    /\ [][(PendingTerm /\ (nlines' = nlines + 1) /\ line'.kind = "[Term]") =>
            /\ WrittenOnce(new_term, on_terms, on_terms')
            /\ new_term' = EmptyDict
            /\ in_term' = TRUE]_vars
    /\ [][(PendingTerm /\ EndOfInputStep) =>
            /\ WrittenOnce(new_term, on_terms, on_terms')
            /\ new_term' = EmptyDict]_vars

\* The stanza of C was ended by a [Typedef] section and an is_a line of the
\* section was read: the buffer still holds C and no edge was recorded.
C20_Witness ==
    /\ pc = "import_ontology"
    /\ ~in_term
    /\ line = Line("is_a", "A")
    /\ "id" \in DOMAIN new_term /\ new_term["id"] = "C"
    /\ "name" \in DOMAIN new_term
    /\ is_a = EmptyOrdered

=============================================================================
